---- MODULE Spec2Model ----
(***************************************************************************)
(* A model of scielo_log_validator: the content-sampling validation engine *)
(* (validator.py) with the file opener of file_utils.py.                   *)
(*                                                                         *)
(* Python values are modelled as follows.                                  *)
(*  - a dict is a function over strings (a record); d.get(k, default) is   *)
(*    Get(d, k, default); an insertion-ordered dict whose order matters    *)
(*    (datetimes, ymd_to_freq) is a sequence of [k |-> key, v |-> value];  *)
(*  - None is NoneV, a str is Str(fields) where fields are the numeric     *)
(*    fields of the text split on '-' ('2023-01-01' is <<2023, 1, 1>>,     *)
(*    '20230101' is <<20230101>>, '' is <<>>), the dict {'error': msg} is  *)
(*    ErrV(msg), and datetime(y, m, d) is Date(<<y, m, d>>);               *)
(*  - a float fraction or percentage is an exact rational: a sample size   *)
(*    is a whole number of 1/10000 units, and percentages are compared by  *)
(*    cross-multiplication.                                                *)
(***************************************************************************)
EXTENDS Integers, Sequences, FiniteSets, TLC

(***************************************************************************)
(* Bounds of the model.                                                    *)
(***************************************************************************)
MaxCount == 12
MaxKeys == 3
MaxFreq == 3
MaxTotal == 24
MaxLines == 3

(***************************************************************************)
(* Program constants.                                                      *)
(***************************************************************************)
MIN_ACCEPTABLE_PERCENT_OF_REMOTE_IPS == 10
MIN_NUMBER_OF_SAMPLE_LINES == 1000
DEFAULT_DAYS_DELTA == 5
\* a sample size is a whole number of 1/10000: 1.0 is 10000 and 0.001 is 10
SAMPLE_SIZE_MAX == 10000
SAMPLE_SIZE_MIN == 10

(***************************************************************************)
(* Python values.                                                          *)
(***************************************************************************)
NoneV == [t |-> "None"]
Returned(x) == [t |-> "returned", v |-> x]
Raised(exc) == [t |-> "raised", exc |-> exc]
IsRaised(x) == x.t = "raised"
Str(fields) == [t |-> "str", v |-> fields]
ErrV(msg) == [t |-> "dict", error |-> msg]
Date(ymd) == [t |-> "datetime", ymd |-> ymd]
EmptyDict == <<>>

Get(d, k, default) == IF k \in DOMAIN d THEN d[k] ELSE default

\* Python truthiness of a path attribute: None and '' are falsy
Falsy(x) == x = NoneV \/ x = Str(<<>>)

(***************************************************************************)
(* The calendar (datetime's proleptic Gregorian ordinal).                  *)
(***************************************************************************)
IsLeap(y) == (y % 4 = 0) /\ ((y % 100 # 0) \/ (y % 400 = 0))

DaysInMonth(y, m) ==
    IF m = 2 THEN (IF IsLeap(y) THEN 29 ELSE 28)
    ELSE IF m \in {4, 6, 9, 11} THEN 30 ELSE 31

IsValidDate(ymd) ==
    /\ Len(ymd) = 3
    /\ ymd[1] \in 1..9999
    /\ ymd[2] \in 1..12
    /\ ymd[3] \in 1..DaysInMonth(ymd[1], ymd[2])

DaysBeforeYear(y) ==
    LET p == y - 1 IN p * 365 + (p \div 4) - (p \div 100) + (p \div 400)

RECURSIVE DaysBeforeMonth(_, _)
DaysBeforeMonth(y, m) ==
    IF m = 1 THEN 0 ELSE DaysBeforeMonth(y, m - 1) + DaysInMonth(y, m - 1)

ToOrdinal(ymd) == DaysBeforeYear(ymd[1]) + DaysBeforeMonth(ymd[1], ymd[2]) + ymd[3]

(***************************************************************************)
(* validator.validate_ip_distribution                                      *)
(***************************************************************************)
\* a percentage is the rational <<numerator, denominator>>
Percent(count, total) == <<count * 100, total>>
RatGT(a, b) == a[1] * b[2] > b[1] * a[2]

\* validate_ip_distribution with its percentages taken over the lines that
\* were given an address class, not over total_lines
validate_ip_distribution_of_sampled(results) ==
    LET summary == Get(Get(results, "content", EmptyDict), "summary", EmptyDict)
        remote_ips == Get(Get(summary, "ips", EmptyDict), "remote", 0)
        local_ips == Get(Get(summary, "ips", EmptyDict), "local", 0)
        unknown_ips == Get(Get(summary, "ips", EmptyDict), "unknown", 0)
        sampled == remote_ips + local_ips + unknown_ips
    IN  IF (remote_ips = 0 /\ local_ips = 0) \/ sampled = 0 THEN FALSE
        ELSE LET percent_remote_ips == Percent(remote_ips, sampled)
                 percent_local_ips == Percent(local_ips, sampled)
             IN  IF RatGT(percent_remote_ips, percent_local_ips) THEN TRUE
                 ELSE IF RatGT(percent_remote_ips, <<MIN_ACCEPTABLE_PERCENT_OF_REMOTE_IPS, 1>>)
                      THEN TRUE
                 ELSE FALSE

validate_ip_distribution_ge(results) ==
    LET summary == Get(Get(results, "content", EmptyDict), "summary", EmptyDict)
        remote_ips == Get(Get(summary, "ips", EmptyDict), "remote", 0)
        local_ips == Get(Get(summary, "ips", EmptyDict), "local", 0)
        total_lines == Get(summary, "total_lines", 0)
    IN  IF (remote_ips = 0 /\ local_ips = 0) \/ total_lines = 0 THEN FALSE
        ELSE LET percent_remote_ips == Percent(remote_ips, total_lines)
                 percent_local_ips == Percent(local_ips, total_lines)
             IN  IF RatGT(percent_remote_ips, percent_local_ips) THEN TRUE
                 ELSE IF ~RatGT(<<MIN_ACCEPTABLE_PERCENT_OF_REMOTE_IPS, 1>>, percent_remote_ips)
                      THEN TRUE
                 ELSE FALSE

validate_ip_distribution(results) ==
    LET summary == Get(Get(results, "content", EmptyDict), "summary", EmptyDict)
        remote_ips == Get(Get(summary, "ips", EmptyDict), "remote", 0)
        local_ips == Get(Get(summary, "ips", EmptyDict), "local", 0)
        total_lines == Get(summary, "total_lines", 0)
    IN  IF (remote_ips = 0 /\ local_ips = 0) \/ total_lines = 0 THEN FALSE
        ELSE LET percent_remote_ips == Percent(remote_ips, total_lines)
                 percent_local_ips == Percent(local_ips, total_lines)
             IN  IF RatGT(percent_remote_ips, percent_local_ips) THEN TRUE
                 ELSE IF RatGT(percent_remote_ips, <<MIN_ACCEPTABLE_PERCENT_OF_REMOTE_IPS, 1>>)
                      THEN TRUE
                 ELSE FALSE

(***************************************************************************)
(* The sampler: validate_content's choice of the sample size and           *)
(* analyze_log_content's choice of the lines to evaluate.                  *)
(***************************************************************************)
\* validate_content: "Ensure that the sample size is within the valid range"
clamp_sample_size(sample_size) ==
    IF sample_size > SAMPLE_SIZE_MAX \/ sample_size < SAMPLE_SIZE_MIN
    THEN SAMPLE_SIZE_MAX
    ELSE sample_size

\* validate_content: the sample size once total_lines is known
effective_sample_size_lt(sample_size, total_lines, min_lines) ==
    IF total_lines < min_lines THEN SAMPLE_SIZE_MAX ELSE clamp_sample_size(sample_size)

effective_sample_size(sample_size, total_lines, min_lines) ==
    IF total_lines <= min_lines THEN SAMPLE_SIZE_MAX ELSE clamp_sample_size(sample_size)

\* validate_content: sample_lines = int(total_lines * sample_size)
sample_lines_of(total_lines, sample_size) ==
    (total_lines * sample_size) \div SAMPLE_SIZE_MAX

\* range(1, stop, step) for step > 0
Range1(stop, step) ==
    [i \in 1..((stop + step - 2) \div step) |-> 1 + (i - 1) * step]

\* range(0, stop, step) for step > 0, as the sequence Python enumerates
Range0(stop, step) ==
    [i \in 1..((stop + step - 1) \div step) |-> (i - 1) * step]

\* the same where no sample line selects no line instead of raising
eval_range_no_lines(total_lines, sample_lines) ==
    IF sample_lines = 0 THEN [t |-> "range", stride |-> 1, seq |-> <<>>]
    ELSE LET stride == total_lines \div sample_lines
         IN  IF stride = 0 THEN Raised("ValueError")
             ELSE [t |-> "range", stride |-> stride, seq |-> Range0(total_lines + 1, stride)]

\* analyze_log_content: range(0, total_lines + 1, int(total_lines/sample_lines)),
\* or the exception the expression raises
eval_range(total_lines, sample_lines) ==
    IF sample_lines = 0 THEN Raised("ZeroDivisionError")
    ELSE LET stride == total_lines \div sample_lines
         IN  IF stride = 0 THEN Raised("ValueError")
             ELSE [t |-> "range", stride |-> stride, seq |-> Range0(total_lines + 1, stride)]

SeqToSet(s) == {s[i] : i \in DOMAIN s}

(***************************************************************************)
(* Insertion-ordered dicts with counts: a sequence of [k, v] with distinct *)
(* keys, in insertion order.                                               *)
(***************************************************************************)
DictKeys(d) == {d[i].k : i \in DOMAIN d}
DictIndex(d, key) == CHOOSE i \in DOMAIN d : d[i].k = key

\* if key not in d: d[key] = 0;  d[key] += n
DictAdd(d, key, n) ==
    IF key \in DictKeys(d)
    THEN [d EXCEPT ![DictIndex(d, key)].v = @ + n]
    ELSE Append(d, [k |-> key, v |-> n])

(***************************************************************************)
(* validator.get_date_frequencies and validator.get_probably_date          *)
(***************************************************************************)
RECURSIVE date_frequencies_loop(_, _)
date_frequencies_loop(items, ymd_to_freq) ==
    IF items = <<>> THEN ymd_to_freq
    ELSE LET k == Head(items).k
             frequency == Head(items).v
         IN  date_frequencies_loop(Tail(items),
                                   DictAdd(ymd_to_freq, <<k[1], k[2], k[3]>>, frequency))

get_date_frequencies(results) ==
    LET file_content_dates ==
            Get(Get(Get(results, "content", EmptyDict), "summary", EmptyDict),
                "datetimes", <<>>)
    IN  date_frequencies_loop(file_content_dates, <<>>)

\* sorted(items, key=operator.itemgetter(1)): stable, ascending by value
RECURSIVE InsertByValue(_, _)
InsertByValue(s, x) ==
    IF s = <<>> THEN <<x>>
    ELSE IF Head(s).v <= x.v THEN <<Head(s)>> \o InsertByValue(Tail(s), x)
    ELSE <<x>> \o s

RECURSIVE SortedByValue(_)
SortedByValue(items) ==
    IF items = <<>> THEN <<>>
    ELSE InsertByValue(SortedByValue(SubSeq(items, 1, Len(items) - 1)), items[Len(items)])

\* get_probably_date returning None where no date can be computed
get_probably_date_or_none(results) ==
    LET sorted == SortedByValue(get_date_frequencies(results))
    IN  IF sorted = <<>> THEN NoneV
        ELSE LET ymd == sorted[Len(sorted)].k
             IN  IF IsValidDate(ymd) THEN Date(ymd) ELSE NoneV

get_probably_date_first(results) ==
    LET sorted == SortedByValue(get_date_frequencies(results))
    IN  IF sorted = <<>> THEN ErrV("Date dictionary is empty")
        ELSE LET ymd == sorted[1].k
             IN  IF IsValidDate(ymd) THEN Date(ymd)
                 ELSE ErrV("Could not determine a probable date")

get_probably_date(results) ==
    LET sorted == SortedByValue(get_date_frequencies(results))
    IN  IF sorted = <<>> THEN ErrV("Date dictionary is empty")
        ELSE LET ymd == sorted[Len(sorted)].k
             IN  IF IsValidDate(ymd) THEN Date(ymd)
                 ELSE ErrV("Could not determine a probable date")

(***************************************************************************)
(* date_utils (not among the sources): the probable date lies more than    *)
(* days_delta days before, or after, the date of the file name.            *)
(***************************************************************************)
date_is_significantly_earlier(date_a, date_b, days_delta) ==
    ToOrdinal(date_a.ymd) < ToOrdinal(date_b.ymd) - days_delta

date_is_significantly_later(date_a, date_b, days_delta) ==
    ToOrdinal(date_a.ymd) > ToOrdinal(date_b.ymd) + days_delta

(***************************************************************************)
(* validator.validate_date_consistency                                     *)
(***************************************************************************)
\* datetime.strptime(text, '%Y-%m-%d'): the date, or the exception raised
strptime_Y_m_d(text) ==
    IF text.t # "str" THEN Raised("TypeError")
    ELSE IF IsValidDate(text.v) THEN Returned(Date(text.v))
    ELSE Raised("ValueError")

validate_date_consistency_no_later(results, days_delta_arg) ==
    LET days_delta == IF days_delta_arg < 0 THEN DEFAULT_DAYS_DELTA ELSE days_delta_arg
        file_path_date == Get(Get(results, "path", EmptyDict), "date", Str(<<>>))
        file_content_dates ==
            Get(Get(Get(results, "content", EmptyDict), "summary", EmptyDict),
                "datetimes", <<>>)
        probably_date == Get(results, "probably_date", NoneV)
    IN  IF Falsy(file_path_date) \/ file_content_dates = <<>> THEN Returned(FALSE)
        ELSE LET parsed == strptime_Y_m_d(file_path_date)
             IN  IF parsed = Raised("ValueError") THEN Returned(FALSE)
                 ELSE IF IsRaised(parsed) THEN parsed
                 ELSE IF probably_date.t # "datetime" THEN Raised("TypeError")
                 ELSE IF date_is_significantly_earlier(probably_date, parsed.v, days_delta)
                      THEN Returned(FALSE)
                 ELSE Returned(TRUE)

\* validate_date_consistency without its test of the path date: a result
\* without a path date is consistent
validate_date_consistency_pathless(results, days_delta_arg) ==
    LET days_delta == IF days_delta_arg < 0 THEN DEFAULT_DAYS_DELTA ELSE days_delta_arg
        file_path_date == Get(Get(results, "path", EmptyDict), "date", Str(<<>>))
        file_content_dates ==
            Get(Get(Get(results, "content", EmptyDict), "summary", EmptyDict),
                "datetimes", <<>>)
        probably_date == Get(results, "probably_date", NoneV)
    IN  IF file_content_dates = <<>> THEN Returned(FALSE)
        ELSE IF Falsy(file_path_date) THEN Returned(TRUE)
        ELSE LET parsed == strptime_Y_m_d(file_path_date)
             IN  IF parsed = Raised("ValueError") THEN Returned(FALSE)
                 ELSE IF IsRaised(parsed) THEN parsed
                 ELSE IF probably_date.t # "datetime" THEN Raised("TypeError")
                 ELSE IF date_is_significantly_earlier(probably_date, parsed.v, days_delta)
                      THEN Returned(FALSE)
                 ELSE IF date_is_significantly_later(probably_date, parsed.v, days_delta)
                      THEN Returned(FALSE)
                 ELSE Returned(TRUE)

validate_date_consistency(results, days_delta_arg) ==
    LET days_delta == IF days_delta_arg < 0 THEN DEFAULT_DAYS_DELTA ELSE days_delta_arg
        file_path_date == Get(Get(results, "path", EmptyDict), "date", Str(<<>>))
        file_content_dates ==
            Get(Get(Get(results, "content", EmptyDict), "summary", EmptyDict),
                "datetimes", <<>>)
        probably_date == Get(results, "probably_date", NoneV)
    IN  IF Falsy(file_path_date) \/ file_content_dates = <<>> THEN Returned(FALSE)
        ELSE LET parsed == strptime_Y_m_d(file_path_date)
             IN  IF parsed = Raised("ValueError") THEN Returned(FALSE)
                 ELSE IF IsRaised(parsed) THEN parsed
                 ELSE IF probably_date.t # "datetime" THEN Raised("TypeError")
                 ELSE IF date_is_significantly_earlier(probably_date, parsed.v, days_delta)
                      THEN Returned(FALSE)
                 ELSE IF date_is_significantly_later(probably_date, parsed.v, days_delta)
                      THEN Returned(FALSE)
                 ELSE Returned(TRUE)

(***************************************************************************)
(* validator.get_ip_type.  An address token is a string; AddressInfo is    *)
(* what ipaddress.ip_address makes of it.                                  *)
(***************************************************************************)
NotAnAddress == [valid |-> FALSE]
Address(is_global, is_private, is_loopback, is_link_local) ==
    [valid |-> TRUE, is_global |-> is_global, is_private |-> is_private,
     is_loopback |-> is_loopback, is_link_local |-> is_link_local]

AddressInfo(token) ==
    CASE token \in {"200.1.2.3", "8.8.8.8"} -> Address(TRUE, FALSE, FALSE, FALSE)
      [] token = "10.0.0.1"    -> Address(FALSE, TRUE, FALSE, FALSE)
      [] token = "127.0.0.1"   -> Address(FALSE, TRUE, TRUE, FALSE)
      [] token = "169.254.1.1" -> Address(FALSE, TRUE, FALSE, TRUE)
      [] token = "100.64.0.1"  -> Address(FALSE, FALSE, FALSE, FALSE)
      [] OTHER                 -> NotAnAddress

get_ip_type(ip) ==
    LET ipa == AddressInfo(ip)
    IN  IF ~ipa.valid THEN "unknown"
        ELSE IF ipa.is_global THEN "remote"
        ELSE IF ipa.is_private \/ ipa.is_loopback \/ ipa.is_link_local THEN "local"
        ELSE "unknown"

(***************************************************************************)
(* The timestamp normalizers.  A formatted date 'dd/Mon/YYYY:HH:MM:SS' is   *)
(* the tuple <<dd, month, YYYY, HH, MM, SS>> (month 0 for a name that is no *)
(* month); an epoch string is [numeric, n].                                 *)
(***************************************************************************)
\* the local time zone of the environment, in hours from UTC
LOCAL_UTC_OFFSET_HOURS == -3

get_year_month_day_hour_from_date_str(log_date) ==
    IF /\ IsValidDate(<<log_date[3], log_date[2], log_date[1]>>)
       /\ log_date[4] \in 0..23 /\ log_date[5] \in 0..59 /\ log_date[6] \in 0..61
    THEN Returned(<<log_date[3], log_date[2], log_date[1], log_date[4]>>)
    ELSE Raised("ValueError")

\* the civil date of a day number counted from 1970-01-01
CivilFromDays(days) ==
    LET z == days + 719468
        era == z \div 146097
        doe == z - era * 146097
        yoe == (doe - (doe \div 1460) + (doe \div 36524) - (doe \div 146096)) \div 365
        doy == doe - (365 * yoe + (yoe \div 4) - (yoe \div 100))
        mp == (5 * doy + 2) \div 153
        d == doy - ((153 * mp + 2) \div 5) + 1
        m == IF mp < 10 THEN mp + 3 ELSE mp - 9
        y == yoe + era * 400 + (IF m <= 2 THEN 1 ELSE 0)
    IN  <<y, m, d>>

get_year_month_day_hour_from_timestamp(timestamp) ==
    IF ~timestamp.numeric THEN Raised("InvalidTimestampContentError")
    ELSE LET local == timestamp.n + LOCAL_UTC_OFFSET_HOURS * 3600
             ymd == CivilFromDays(local \div 86400)
         IN  Returned(<<ymd[1], ymd[2], ymd[3], (local % 86400) \div 3600>>)

(***************************************************************************)
(* Log lines.  A line is known by what re.match makes of it under each of  *)
(* the five patterns: NoMatch, or the groups ip, ip_list (the tokens of    *)
(* the group split on ','; <<"">> when the pattern has no such group) and  *)
(* date or timestamp.                                                      *)
(***************************************************************************)
NoMatch == [matched |-> FALSE]
DateMatch(ip, ip_list, date) ==
    [matched |-> TRUE, ip |-> ip, ip_list |-> ip_list, kind |-> "date", date |-> date]
TimestampMatch(ip, timestamp) ==
    [matched |-> TRUE, ip |-> ip, ip_list |-> <<"">>, kind |-> "timestamp",
     timestamp |-> [numeric |-> TRUE, n |-> timestamp]]

\* the patterns in the order analyze_log_content tries them
PATTERNS ==
    <<"PATTERN_NCSA_EXTENDED_LOG_FORMAT",
      "PATTERN_NCSA_EXTENDED_LOG_FORMAT_DOMAIN",
      "PATTERN_NCSA_EXTENDED_LOG_FORMAT_WITH_IP_LIST",
      "PATTERN_NCSA_EXTENDED_LOG_FORMAT_DOMAIN_WITH_IP_LIST",
      "PATTERN_BUNNY">>

\* '<ip> - - [<date> +0000] "GET /a HTTP/1.1" 200 10 "-" "UA"': matched by the
\* extended pattern and by the one with an address list
PlainLine(ip, date) ==
    <<DateMatch(ip, <<"">>, date), NoMatch, DateMatch(ip, <<"-">>, date), NoMatch, NoMatch>>

\* 'www.scielo.cl <ip> - - [<date> +0000] ...': matched by the patterns with a
\* leading domain, and by the address-list pattern with the domain as its ip
DomainLine(ip, date) ==
    <<NoMatch, DateMatch(ip, <<"">>, date),
      DateMatch("www.scielo.cl", <<ip \o " -">>, date),
      DateMatch(ip, <<"-">>, date), NoMatch>>

\* '<first> <second>, <last> - - [<date> +0000] ...': the patterns with a
\* leading domain take the last address as the ip (and '<first> <second>,' as
\* the domain); the address-list pattern takes the first as the ip and
\* '<second>, <last> -' as its list
ForwardedLine(first_ip, second_ip, last_ip, date) ==
    <<NoMatch, DateMatch(last_ip, <<"">>, date),
      DateMatch(first_ip, <<second_ip, last_ip \o " -">>, date),
      DateMatch(last_ip, <<"-">>, date), NoMatch>>

\* 'www.scielo.cl <first> <second> - - [<date> +0000] ...': the domain pattern
\* takes 'www.scielo.cl <first>' as the domain and <second> as the ip; the
\* domain pattern with a list takes <first> as the ip and '<second> -' as its list
ProxiedLine(first_ip, second_ip, date) ==
    <<NoMatch, DateMatch(second_ip, <<"">>, date),
      DateMatch("www.scielo.cl", <<first_ip \o " " \o second_ip \o " -">>, date),
      DateMatch(first_ip, <<second_ip \o " -">>, date), NoMatch>>

\* 'HIT|200|<timestamp>|1234|56|<ip>|-|https://x.y/z|BR|UA|<md5>|BR'
BunnyLine(ip, timestamp) ==
    <<NoMatch, NoMatch, NoMatch, NoMatch, TimestampMatch(ip, timestamp)>>

\* 'hello world'
GarbageLine == <<NoMatch, NoMatch, NoMatch, NoMatch, NoMatch>>

\* the lines of the model, each named by its text
LineText(line) ==
    CASE line = "remote"     -> PlainLine("200.1.2.3", <<1, 1, 2023, 0, 10, 0>>)
      [] line = "local"      -> PlainLine("10.0.0.1", <<7, 1, 2023, 23, 10, 0>>)
      \* a client address that is no address: '- - - [01/Jan/2023:00:10:00 +0000] ...'
      [] line = "unknown"    -> PlainLine("-", <<1, 1, 2023, 0, 10, 0>>)
      \* '200.1.2.3 - - [31/Feb/2023:00:10:00 +0000] ...'
      [] line = "bad date"   -> PlainLine("200.1.2.3", <<31, 2, 2023, 0, 10, 0>>)
      [] line = "garbage"    -> GarbageLine
      \* 1672542000 is 2023-01-01 00:00:00 local time
      [] line = "edge cache" -> BunnyLine("8.8.8.8", 1672542000)
      [] line = "domain"     -> DomainLine("200.1.2.3", <<1, 1, 2023, 0, 10, 0>>)
      \* '100.64.0.1 200.1.2.3, 10.0.0.1 - - [01/Jan/2023:00:10:00 +0000] ...'
      [] line = "forwarded"  ->
            ForwardedLine("100.64.0.1", "200.1.2.3", "10.0.0.1", <<1, 1, 2023, 0, 10, 0>>)
      \* '100.64.0.1 10.0.0.1, 100.64.0.1 - - [01/Jan/2023:01:10:00 +0000] ...'
      [] line = "forwarded local" ->
            ForwardedLine("100.64.0.1", "10.0.0.1", "100.64.0.1", <<1, 1, 2023, 1, 10, 0>>)
      \* 'www.scielo.cl 10.0.0.1 200.1.2.3 - - [01/Jan/2023:00:10:00 +0000] ...'
      [] line = "proxied"    ->
            ProxiedLine("10.0.0.1", "200.1.2.3", <<1, 1, 2023, 0, 10, 0>>)

LineKinds == {"remote", "local", "unknown", "bad date", "garbage", "edge cache"}

\* the same with the lines that carry a domain or several addresses
ListLineKinds == LineKinds \cup {"domain", "forwarded", "forwarded local", "proxied"}

re_match(pattern_index, line) == LineText(line)[pattern_index]

MatchesNoPattern(line) == \A i \in DOMAIN PATTERNS : ~re_match(i, line).matched

(***************************************************************************)
(* analyze_log_content: one sampled line.                                  *)
(***************************************************************************)
\* for i in ip_list.split(','): ip_type = get_ip_type(i.strip()); break on a
\* type that is not 'unknown'
RECURSIVE ip_list_type(_)
ip_list_type(tokens) ==
    IF tokens = <<>> THEN "unknown"
    ELSE IF get_ip_type(Head(tokens)) # "unknown" \/ Len(tokens) = 1
         THEN get_ip_type(Head(tokens))
    ELSE ip_list_type(Tail(tokens))

\* the same loop over the patterns with a leading domain first: domain with
\* list, domain, list, single address, edge cache
RECURSIVE match_patterns_domain_first(_, _, _, _)
match_patterns_domain_first(line, i, match, ip_type) ==
    IF i > Len(PATTERNS) THEN [match |-> match, ip_type |-> ip_type]
    ELSE LET m == re_match(<<4, 2, 3, 1, 5>>[i], line)
         IN  IF ~m.matched THEN match_patterns_domain_first(line, i + 1, m, ip_type)
             ELSE IF get_ip_type(m.ip) # "unknown"
                  THEN [match |-> m, ip_type |-> get_ip_type(m.ip)]
             ELSE IF ip_list_type(m.ip_list) # "unknown"
                  THEN [match |-> m, ip_type |-> ip_list_type(m.ip_list)]
             ELSE match_patterns_domain_first(line, i + 1, m, "unknown")

\* for pattern in patterns: ... ; the values of match and ip_type after the loop
RECURSIVE match_patterns(_, _, _, _)
match_patterns(line, i, match, ip_type) ==
    IF i > Len(PATTERNS) THEN [match |-> match, ip_type |-> ip_type]
    ELSE LET m == re_match(i, line)
         IN  IF ~m.matched THEN match_patterns(line, i + 1, m, ip_type)
             ELSE IF get_ip_type(m.ip) # "unknown"
                  THEN [match |-> m, ip_type |-> get_ip_type(m.ip)]
             ELSE IF ip_list_type(m.ip_list) # "unknown"
                  THEN [match |-> m, ip_type |-> ip_list_type(m.ip_list)]
             ELSE match_patterns(line, i + 1, m, "unknown")

\* the (year, month, day, hour) of the match, or the exception raised
normalize_match(match) ==
    IF match.kind = "date"
    THEN get_year_month_day_hour_from_date_str(match.date)
    ELSE get_year_month_day_hour_from_timestamp(match.timestamp)

\* the counters after one sampled line, or the exception that leaves the loop
analyze_line_uncaught(counters, line) ==
    LET found == match_patterns(line, 1, NoMatch, "unknown")
        ips == [counters.ips EXCEPT ![found.ip_type] = @ + 1]
    IN  IF found.match.matched
        THEN LET key == normalize_match(found.match)
             IN  IF IsRaised(key) THEN key
                 ELSE Returned([counters EXCEPT !.ips = ips,
                                                !.datetimes = DictAdd(@, key.v, 1)])
        ELSE Returned([counters EXCEPT !.ips = ips, !.invalid_lines = @ + 1])

\* the same where only a line that matched is added to the address tally
analyze_line_tally_matched(counters, line) ==
    LET found == match_patterns(line, 1, NoMatch, "unknown")
        ips == [counters.ips EXCEPT ![found.ip_type] = @ + 1]
    IN  IF found.match.matched
        THEN LET key == normalize_match(found.match)
             IN  IF IsRaised(key)
                 THEN Returned([counters EXCEPT !.ips = ips, !.invalid_lines = @ + 1])
                 ELSE Returned([counters EXCEPT !.ips = ips,
                                                !.datetimes = DictAdd(@, key.v, 1)])
        ELSE Returned([counters EXCEPT !.invalid_lines = @ + 1])

analyze_line(counters, line) ==
    LET found == match_patterns(line, 1, NoMatch, "unknown")
        ips == [counters.ips EXCEPT ![found.ip_type] = @ + 1]
    IN  IF found.match.matched
        THEN LET key == normalize_match(found.match)
             IN  IF IsRaised(key)
                 THEN IF key.exc \in {"ValueError", "InvalidTimestampContentError"}
                      THEN Returned([counters EXCEPT !.ips = ips, !.invalid_lines = @ + 1])
                      ELSE key
                 ELSE Returned([counters EXCEPT !.ips = ips,
                                                !.datetimes = DictAdd(@, key.v, 1)])
        ELSE Returned([counters EXCEPT !.ips = ips, !.invalid_lines = @ + 1])

(***************************************************************************)
(* file_utils.  A file is [access, mime, truncated, lines]: whether open() *)
(* succeeds, what libmagic makes of its first bytes, whether its           *)
(* compressed stream ends early, and its decoded lines.                    *)
(***************************************************************************)
DEFAULT_MIME_HANDLERS ==
    {"application/gzip", "application/x-gzip", "application/x-bzip2",
     "application/text", "text/plain", "application/x-empty"}

extract_mime_from_path(file) ==
    IF file.access = "missing" THEN Raised("FileNotFoundError")
    ELSE IF file.access = "denied" THEN Raised("PermissionError")
    ELSE Returned(file.mime)

open_file(file) ==
    LET file_mime == extract_mime_from_path(file)
    IN  IF IsRaised(file_mime) THEN file_mime
        ELSE IF file_mime.v \notin DEFAULT_MIME_HANDLERS
             THEN Raised("InvalidLogFileMimeError")
        ELSE IF file_mime.v = "application/x-empty" THEN Raised("LogFileIsEmptyError")
        ELSE Returned([lines |-> file.lines, truncated |-> file.truncated])

\* sum(1 for _ in fin): the number of lines, or EOFError from a stream that
\* ends before its end-of-stream marker
count_lines(stream) ==
    IF stream.truncated THEN Raised("EOFError") ELSE Returned(Len(stream.lines))

get_total_lines_uncaught(file) ==
    LET fin == open_file(file)
    IN  IF IsRaised(fin) THEN fin ELSE count_lines(fin.v)

get_total_lines(file) ==
    LET fin == open_file(file)
        counted == IF IsRaised(fin) THEN fin ELSE count_lines(fin.v)
    IN  IF counted = Raised("EOFError") THEN Raised("TruncatedLogFileError")
        ELSE counted

COLLECTION_FILE_NAME_IDENTIFIERS ==
    [x \in {"_scielo.cl", "_scielo-br", "_caribbean.scielo.org.1"} |->
        CASE x = "_scielo.cl" -> "chl"
          [] x = "_scielo-br" -> "scl"
          [] x = "_caribbean.scielo.org.1" -> "wid"]

(***************************************************************************)
(* The attributes of a file name.  A name is [date, identifier, paperboy,  *)
(* extension]: the text PATTERN_Y_M_D finds in it (NoneV when it and       *)
(* PATTERN_YMD find none), the collection identifier it holds ("" for      *)
(* none), whether PATTERN_PAPERBOY matches it, and what os.path.splitext   *)
(* gives ("" for none).                                                    *)
(***************************************************************************)
\* date_utils.clean_date (not among the sources) keeps a YYYY-MM-DD text
clean_date(text) == text

extract_date_from_path(name) ==
    IF name.date = NoneV THEN Returned(NoneV) ELSE Returned(clean_date(name.date))

extract_collection_from_path(name) ==
    IF name.identifier \in DOMAIN COLLECTION_FILE_NAME_IDENTIFIERS
    THEN Returned(Str(COLLECTION_FILE_NAME_IDENTIFIERS[name.identifier]))
    ELSE Returned(NoneV)

has_paperboy_format(name) == Returned(name.paperboy)

extract_file_extension_from_path(name) ==
    IF name.extension # "" THEN Returned(name.extension)
    ELSE Raised("LogFileExtensionUndetectableError")

\* d[k] = v
Put(d, k, v) == [x \in DOMAIN d \cup {k} |-> IF x = k THEN v ELSE d[x]]

\* try: results[func_name] = func_impl(path)
\* except Exception as e: results[func_name] = {'error': str(e)}
Attribute(outcome) == IF IsRaised(outcome) THEN ErrV(outcome.exc) ELSE outcome.v

\* validate_path_name without its per-attribute handler: the first attribute
\* that fails is the last one recorded
validate_path_name_until_error(path) ==
    LET date == [date |-> Attribute(extract_date_from_path(path.name))]
        collection == Put(date, "collection", Attribute(extract_collection_from_path(path.name)))
        paperboy == Put(collection, "paperboy", Attribute(has_paperboy_format(path.name)))
        mimetype == Put(paperboy, "mimetype", Attribute(extract_mime_from_path(path.file)))
        extension == Put(mimetype, "extension",
                          Attribute(extract_file_extension_from_path(path.name)))
    IN  IF IsRaised(extract_date_from_path(path.name)) THEN date
        ELSE IF IsRaised(extract_collection_from_path(path.name)) THEN collection
        ELSE IF IsRaised(has_paperboy_format(path.name)) THEN paperboy
        ELSE IF IsRaised(extract_mime_from_path(path.file)) THEN mimetype
        ELSE extension

validate_path_name(path) ==
    [date |-> Attribute(extract_date_from_path(path.name)),
     collection |-> Attribute(extract_collection_from_path(path.name)),
     paperboy |-> Attribute(has_paperboy_format(path.name)),
     mimetype |-> Attribute(extract_mime_from_path(path.file)),
     extension |-> Attribute(extract_file_extension_from_path(path.name))]

(***************************************************************************)
(* State.                                                                  *)
(***************************************************************************)
VARIABLES
    call,          \* the function called and its arguments
    ret,           \* Pending, then what the call returned or raised
    file,          \* the file at the path of the call
    pc,            \* where pipeline_validate stands
    run,           \* 1 in the first run of pipeline_validate on the file, 2 in the second
    first,         \* what the first run returned or raised
    results,       \* pipeline_validate: results
    sample_size,   \* validate_content: sample_size
    total_lines,   \* validate_content: total_lines
    sample_lines,  \* validate_content: sample_lines
    eval_lines,    \* analyze_log_content: eval_lines
    line_counter,  \* analyze_log_content: line_counter
    counters       \* analyze_log_content: ips, datetimes and invalid_lines

locals == <<results, sample_size, total_lines, sample_lines, eval_lines, line_counter,
            counters>>
pipeline_vars == <<file, pc, run, first, locals>>
vars == <<call, ret, pipeline_vars>>

Pending == [t |-> "pending"]
NoFile == [access |-> "missing", mime |-> "", truncated |-> FALSE, lines |-> <<>>]

\* the locals of analyze_log_content before it is first called
NoCounters ==
    [ips |-> [local |-> 0, remote |-> 0, unknown |-> 0], datetimes |-> <<>>,
     invalid_lines |-> 0]

\* the counters of a call that keeps those of the call before it
KeptCounters == counters

\* ips = {'local': 0, 'remote': 0, 'unknown': 0}; datetimes = {}; invalid_lines = 0
NewCounters ==
    [ips |-> [local |-> 0, remote |-> 0, unknown |-> 0], datetimes |-> <<>>,
     invalid_lines |-> 0]

FreshLocals ==
    /\ results = EmptyDict
    /\ sample_size = 0
    /\ total_lines = 0
    /\ sample_lines = 0
    /\ eval_lines = {}
    /\ line_counter = 0
    /\ counters = NoCounters

\* the state of a function-level check: no pipeline runs
NoPipeline ==
    /\ file = NoFile
    /\ pc = "none"
    /\ run = 0
    /\ first = Pending
    /\ FreshLocals

(***************************************************************************)
(* pipeline_validate, run twice on the same file with the same arguments.  *)
(***************************************************************************)
\* a and b, as Python evaluates it
py_or(a, b) == IF a THEN a ELSE b
py_and(a, b) == IF a THEN b ELSE a

ErrorSummary(msg) == [summary |-> [total_lines |-> ErrV(msg)]]

\* validate_content: what each exception it handles is turned into
HANDLED ==
    [x \in {"TruncatedLogFileError", "InvalidLogFileMimeError", "LogFileIsEmptyError"} |->
        CASE x = "TruncatedLogFileError" -> "File is truncated"
          [] x = "InvalidLogFileMimeError" -> "File is invalid"
          [] x = "LogFileIsEmptyError" -> "File is empty"]

\* an exception leaves pipeline_validate
Propagate(exc) ==
    /\ ret' = Raised(exc)
    /\ pc' = "done"

\* validate_content returns the error summary of a handled exception, and
\* lets any other exception through
ContentFails(exc) ==
    IF exc \in DOMAIN HANDLED
    THEN /\ results' = Put(results, "content", ErrorSummary(HANDLED[exc]))
         /\ pc' = "evaluate"
         /\ UNCHANGED ret
    ELSE /\ Propagate(exc)
         /\ UNCHANGED results

\* results = {'mode': ...}; if apply_path_validation: results['path'] = ...
ValidatePath ==
    /\ pc = "start"
    /\ LET mode == [path_validation |-> call.apply_path_validation,
                    content_validation |-> call.apply_content_validation]
           started == IF call.apply_path_validation
                      THEN [mode |-> mode,
                            path |-> validate_path_name([name |-> call.name, file |-> file])]
                      ELSE [mode |-> mode]
       IN  /\ results' = started
           /\ IF call.apply_content_validation
              THEN pc' = "content" /\ UNCHANGED ret
              ELSE pc' = "done" /\ ret' = Returned(started)
    /\ UNCHANGED <<call, file, run, first, sample_size, total_lines, sample_lines,
                   eval_lines, line_counter, counters>>

\* validate_content up to the first line of the pass of analyze_log_content
StartContent ==
    /\ pc = "content"
    /\ LET counted == get_total_lines(file)
           size == effective_sample_size(call.sample_size,
                                         IF IsRaised(counted) THEN 0 ELSE counted.v,
                                         call.min_lines)
           lines == sample_lines_of(counted.v, size)
           range == eval_range(counted.v, lines)
           data == open_file(file)
       IN  IF IsRaised(counted)
           THEN /\ ContentFails(counted.exc)
                /\ sample_size' = clamp_sample_size(call.sample_size)
                /\ UNCHANGED <<total_lines, sample_lines, eval_lines>>
           ELSE /\ sample_size' = size
                /\ total_lines' = counted.v
                /\ sample_lines' = lines
                /\ IF range = Raised("ZeroDivisionError")
                   THEN ContentFails("LogFileIsEmptyError") /\ UNCHANGED eval_lines
                   ELSE IF IsRaised(range)
                   THEN ContentFails(range.exc) /\ UNCHANGED eval_lines
                   ELSE IF IsRaised(data)
                   THEN ContentFails(data.exc) /\ UNCHANGED eval_lines
                   ELSE /\ eval_lines' = SeqToSet(range.seq)
                        /\ pc' = "analyze"
                        /\ UNCHANGED <<ret, results>>
    /\ line_counter' = 0
    /\ counters' = NewCounters
    /\ UNCHANGED <<call, file, run, first>>

\* for line in data: one line of the pass
AnalyzeLine ==
    /\ pc = "analyze"
    /\ line_counter < Len(file.lines)
    /\ line_counter' = line_counter + 1
    /\ IF line_counter' \in eval_lines
       THEN LET analyzed == analyze_line(counters, file.lines[line_counter'])
            IN  IF IsRaised(analyzed)
                THEN ContentFails(analyzed.exc) /\ UNCHANGED counters
                ELSE counters' = analyzed.v /\ UNCHANGED <<pc, ret, results>>
       ELSE UNCHANGED <<pc, ret, results, counters>>
    /\ UNCHANGED <<call, file, run, first, sample_size, total_lines, sample_lines,
                   eval_lines>>

\* analyze_log_content returns and validate_content wraps the summary
ReturnSummary ==
    /\ pc = "analyze"
    /\ line_counter = Len(file.lines)
    /\ results' = Put(results, "content",
                      [summary |-> [ips |-> counters.ips,
                                    datetimes |-> counters.datetimes,
                                    invalid_lines |-> counters.invalid_lines,
                                    total_lines |-> total_lines]])
    /\ pc' = "evaluate"
    /\ UNCHANGED <<call, ret, file, run, first, sample_size, total_lines, sample_lines,
                   eval_lines, line_counter, counters>>

\* results['is_valid']['all'] = results['is_valid']['ips'] and results['is_valid']['dates']
combined_verdict_or(ips, dates) == py_or(ips, dates)

combined_verdict(ips, dates) == py_and(ips, dates)

\* the verdicts of pipeline_validate
Evaluate ==
    /\ pc = "evaluate"
    /\ LET ips == validate_ip_distribution(results)
           with_date == Put(results, "probably_date", get_probably_date(results))
           dates == validate_date_consistency(with_date, call.days_delta)
       IN  IF IsRaised(dates)
           THEN /\ results' = Put(with_date, "is_valid", [ips |-> ips])
                /\ ret' = dates
           ELSE /\ results' = Put(with_date, "is_valid",
                                  [ips |-> ips, dates |-> dates.v,
                                   all |-> combined_verdict(ips, dates.v)])
                /\ ret' = Returned(results')
    /\ pc' = "done"
    /\ UNCHANGED <<call, file, run, first, sample_size, total_lines, sample_lines,
                   eval_lines, line_counter, counters>>

\* the same call is made again on the same file
RunAgain ==
    /\ pc = "done"
    /\ run = 1
    /\ run' = 2
    /\ first' = ret
    /\ ret' = Pending
    /\ pc' = "start"
    /\ UNCHANGED <<call, file, locals>>

(***************************************************************************)
(* The files, names and arguments pipeline_validate is run on.             *)
(***************************************************************************)
Contents == UNION {[1..n -> LineKinds] : n \in 0..MaxLines}

ReadableFile(mime, truncated, lines) ==
    [access |-> "ok", mime |-> mime, truncated |-> truncated, lines |-> lines]

Files ==
    {ReadableFile("application/gzip", FALSE, lines) : lines \in Contents}
    \cup {ReadableFile("application/gzip", TRUE, <<"remote">>),
          ReadableFile("application/x-bzip2", TRUE, <<"remote", "local">>),
          ReadableFile("application/x-bzip2", FALSE, <<"remote", "local">>),
          ReadableFile("text/plain", FALSE, <<"remote", "garbage">>),
          ReadableFile("application/x-empty", FALSE, <<>>),
          ReadableFile("application/pdf", FALSE, <<"garbage">>),
          [access |-> "missing", mime |-> "", truncated |-> FALSE, lines |-> <<>>],
          [access |-> "denied", mime |-> "text/plain", truncated |-> FALSE,
           lines |-> <<"remote">>]}

\* '2023-01-01_scielo.cl.log.gz'
DatedName ==
    [date |-> Str(<<2023, 1, 1>>), identifier |-> "_scielo.cl", paperboy |-> TRUE,
     extension |-> ".gz"]
\* 'invalid_file_name.log.gz' and '2023-01-02_scielo-br'
Names ==
    {DatedName,
     [date |-> NoneV, identifier |-> "", paperboy |-> FALSE, extension |-> ".gz"],
     [date |-> Str(<<2023, 1, 2>>), identifier |-> "_scielo-br", paperboy |-> FALSE,
      extension |-> ""]}

\* <<sample_size, MIN_NUMBER_OF_SAMPLE_LINES as the environment sets it>>: the
\* defaults (0.1 and 1000), and 0.1, 0.5 and 1.0 with a threshold of one line
Samplings ==
    {<<1000, MIN_NUMBER_OF_SAMPLE_LINES>>, <<1000, 1>>, <<5000, 1>>, <<10000, 1>>}
PipelineDaysDeltas == {DEFAULT_DAYS_DELTA, 0}
\* <<name, apply_path_validation, apply_content_validation>>
Modes ==
    {<<name, TRUE, content>> : name \in Names, content \in BOOLEAN}
    \cup {<<DatedName, FALSE, TRUE>>}

Init ==
    /\ file \in Files
    /\ \E mode \in Modes, sampling \in Samplings, days_delta \in PipelineDaysDeltas :
          call = [fn |-> "pipeline_validate", name |-> mode[1],
                  sample_size |-> sampling[1], min_lines |-> sampling[2],
                  days_delta |-> days_delta,
                  apply_path_validation |-> mode[2],
                  apply_content_validation |-> mode[3]]
    /\ ret = Pending
    /\ pc = "start"
    /\ run = 1
    /\ first = Pending
    /\ FreshLocals

Next == ValidatePath \/ StartContent \/ AnalyzeLine \/ ReturnSummary \/ Evaluate \/ RunAgain

Spec == Init /\ [][Next]_vars

(***************************************************************************)
(* pipeline_validate with its default arguments on the gzip files of every *)
(* content, the lines with a domain or several addresses included.         *)
(***************************************************************************)
ListContents == UNION {[1..n -> ListLineKinds] : n \in 0..MaxLines}

InitLines ==
    /\ file \in {ReadableFile("application/gzip", FALSE, lines) : lines \in ListContents}
    /\ call = [fn |-> "pipeline_validate", name |-> DatedName,
               sample_size |-> 1000, min_lines |-> MIN_NUMBER_OF_SAMPLE_LINES,
               days_delta |-> DEFAULT_DAYS_DELTA,
               apply_path_validation |-> TRUE,
               apply_content_validation |-> TRUE]
    /\ ret = Pending
    /\ pc = "start"
    /\ run = 1
    /\ first = Pending
    /\ FreshLocals

SpecLines == InitLines /\ [][Next]_vars

\* pipeline_validate has returned a result of a call with content validation
ContentResult ==
    pc = "done" /\ ret.t = "returned" /\ call.apply_content_validation

\* C4: in every result of pipeline_validate with content validation enabled,
\* is_valid.all equals (is_valid.ips AND is_valid.dates), and the three
\* verdicts are booleans.
C4_CombinedVerdict ==
    ContentResult =>
        /\ DOMAIN ret.v.is_valid = {"ips", "dates", "all"}
        /\ ret.v.is_valid.ips \in BOOLEAN
        /\ ret.v.is_valid.dates \in BOOLEAN
        /\ ret.v.is_valid.all \in BOOLEAN
        /\ ret.v.is_valid.all = (ret.v.is_valid.ips /\ ret.v.is_valid.dates)

\* a result whose address verdict passes and whose date verdict fails
C4_Witness ==
    /\ ContentResult
    /\ ret.v.is_valid.ips = TRUE
    /\ ret.v.is_valid.dates = FALSE
    /\ ret.v.is_valid.all = FALSE

\* the file can be opened, and is empty, truncated or of an unsupported type
FileIsEmpty == file.mime = "application/x-empty" \/ file.lines = <<>>
FileIsTruncated == file.truncated
FileIsUnsupported == file.mime \notin DEFAULT_MIME_HANDLERS
UnusableContent ==
    file.access = "ok" /\ (FileIsEmpty \/ FileIsTruncated \/ FileIsUnsupported)

\* validate_content is under way or has returned or raised
ContentEntered == call.apply_content_validation /\ pc \in {"analyze", "evaluate", "done"}

C6_UnopenableFile ==
    (file.access # "ok" /\ call.apply_content_validation /\ pc = "done") =>
        /\ ret.t = "returned"
        /\ DOMAIN ret.v.content.summary = {"total_lines"}
        /\ ret.v.content.summary.total_lines.t = "dict"

TimestampFails(line) ==
    \E i \in DOMAIN PATTERNS :
        /\ re_match(i, line).matched
        /\ IsRaised(normalize_match(re_match(i, line)))

\* the next line of the pass is sampled, and matches no pattern or carries a
\* timestamp that fails to normalize
NextLineFails ==
    /\ pc = "analyze"
    /\ line_counter < Len(file.lines)
    /\ line_counter + 1 \in eval_lines
    /\ \/ MatchesNoPattern(file.lines[line_counter + 1])
       \/ TimestampFails(file.lines[line_counter + 1])

\* C10: a sampled line that matches no pattern, or whose captured timestamp
\* fails to normalize, never aborts the pass: invalid_lines is incremented by
\* exactly one for that line, nothing is raised, and the pass continues until
\* every line of the file has been read.
C10_InvalidLineCounted ==
    /\ get_year_month_day_hour_from_timestamp([numeric |-> FALSE, n |-> 0])
          = Raised("InvalidTimestampContentError")
    /\ [][NextLineFails =>
            /\ counters'.invalid_lines = counters.invalid_lines + 1
            /\ counters'.datetimes = counters.datetimes
            /\ line_counter' = line_counter + 1
            /\ pc' = "analyze"
            /\ ret' = Pending]_vars
    /\ []((pc \in {"evaluate", "done"} /\ "content" \in DOMAIN results
           /\ "ips" \in DOMAIN results.content.summary)
          => line_counter = Len(file.lines))

\* a pass went on after a line that matches no pattern and a line with a
\* malformed date, and read the lines after them
C10_Witness ==
    /\ ContentResult
    /\ Len(file.lines) = 3
    /\ file.lines[1] = "garbage" /\ file.lines[2] = "bad date"
    /\ "invalid_lines" \in DOMAIN ret.v.content.summary
    /\ ret.v.content.summary.invalid_lines = 2
    /\ ret.v.content.summary.datetimes # <<>>


\* the attribute of the path results is what its own extractor gives: its
\* value, or the marker of the exception it raised
Extracted(attribute, outcome) ==
    IF IsRaised(outcome)
    THEN /\ DOMAIN attribute = {"t", "error"}
         /\ attribute = ErrV(outcome.exc)
    ELSE attribute = outcome.v

\* C11: validate_path_name always returns a mapping with exactly the five keys
\* date, collection, paperboy, mimetype and extension; an error raised while
\* extracting one attribute is recorded as an {'error': ...} marker under that
\* attribute's key only, and the remaining attributes are still extracted.
C11_PathAttributes ==
    "path" \in DOMAIN results =>
        /\ DOMAIN results.path = {"date", "collection", "paperboy", "mimetype", "extension"}
        /\ Extracted(results.path.date, extract_date_from_path(call.name))
        /\ Extracted(results.path.collection, extract_collection_from_path(call.name))
        /\ Extracted(results.path.paperboy, has_paperboy_format(call.name))
        /\ Extracted(results.path.mimetype, extract_mime_from_path(file))
        /\ Extracted(results.path.extension, extract_file_extension_from_path(call.name))

\* the type of a file that does not exist could not be read, and the
\* attributes before and after it were extracted
C11_Witness ==
    /\ "path" \in DOMAIN results
    /\ file.access = "missing"
    /\ results.path.mimetype = ErrV("FileNotFoundError")
    /\ results.path.date = Str(<<2023, 1, 1>>)
    /\ results.path.extension = ".gz"

\* the counters after the lines i.. of a pass that samples the lines of evals
RECURSIVE PassOver(_, _, _, _)
PassOver(lines, i, evals, acc) ==
    IF i > Len(lines) THEN acc
    ELSE PassOver(lines, i + 1, evals,
                  IF i \in evals THEN analyze_line(acc, lines[i]).v ELSE acc)

\* what validate_content returns for a readable file, as a function of the
\* file, the requested sample size and the threshold alone
ContentOf(f, size_arg, min_lines) ==
    LET counted == get_total_lines(f)
        size == effective_sample_size(size_arg, counted.v, min_lines)
        range == eval_range(counted.v, sample_lines_of(counted.v, size))
        summary == PassOver(f.lines, 1, SeqToSet(range.seq), NoCounters)
    IN  IF IsRaised(counted) THEN ErrorSummary(HANDLED[counted.exc])
        ELSE IF IsRaised(range) THEN ErrorSummary("File is empty")
        ELSE [summary |-> [ips |-> summary.ips, datetimes |-> summary.datetimes,
                           invalid_lines |-> summary.invalid_lines,
                           total_lines |-> counted.v]]

\* pipeline_validate has returned the result of a call with content
\* validation and without path validation
ContentOnlyResult == ContentResult /\ ~call.apply_path_validation

\* C12: with path validation disabled and content validation enabled the
\* result has no 'path' key and, for every file content, is_valid.dates is
\* false and so is is_valid.all, while the content summary and the probable
\* date are those of the same call with path validation enabled (they are
\* determined by the file and the sampling arguments alone).
C12_ContentOnly ==
    /\ ContentOnlyResult =>
          /\ "path" \notin DOMAIN ret.v
          /\ ret.v.mode = [path_validation |-> FALSE, content_validation |-> TRUE]
          /\ ret.v.is_valid.dates = FALSE
          /\ ret.v.is_valid.all = FALSE
    /\ ContentResult =>
          /\ ret.v.content = ContentOf(file, call.sample_size, call.min_lines)
          /\ ret.v.probably_date = get_probably_date([content |-> ret.v.content])

\* a file whose addresses pass and whose lines are all of the day of its
\* name, validated on its content alone
C12_Witness ==
    /\ ContentOnlyResult
    /\ "ips" \in DOMAIN ret.v.content.summary
    /\ ret.v.is_valid.ips = TRUE
    /\ ret.v.probably_date = Date(<<2023, 1, 1>>)
    /\ call.name.date = Str(<<2023, 1, 1>>)

\* the next line of the pass is one of the sampled lines
NextLineSampled ==
    /\ pc = "analyze"
    /\ line_counter < Len(file.lines)
    /\ line_counter + 1 \in eval_lines

\* the (year, month, day, hour) captured by the patterns that match the line
\* (every pattern that matches a line captures the same date)
LineKey(line) ==
    normalize_match(re_match(CHOOSE i \in DOMAIN PATTERNS : re_match(i, line).matched,
                             line)).v

\* C13: every sampled line that matches at least one pattern and whose
\* captured timestamp normalizes increments datetimes[key] by one and does not
\* increment invalid_lines, whatever the line's address class.
C13_MatchedLineDated ==
    [][(/\ NextLineSampled
        /\ ~MatchesNoPattern(file.lines[line_counter + 1])
        /\ ~TimestampFails(file.lines[line_counter + 1]))
       => /\ counters'.invalid_lines = counters.invalid_lines
          /\ counters'.datetimes =
                DictAdd(counters.datetimes, LineKey(file.lines[line_counter + 1]), 1)]_vars

\* the first pattern of the list that matches the line
FirstMatching(order, line) ==
    CHOOSE i \in DOMAIN order :
        /\ re_match(order[i], line).matched
        /\ \A j \in 1..(i - 1) : ~re_match(order[j], line).matched

\* the address class of the captures of one match: that of its ip, or failing
\* that of the tokens of its list
CapturedClass(m) ==
    IF get_ip_type(m.ip) # "unknown" THEN get_ip_type(m.ip) ELSE ip_list_type(m.ip_list)

\* the counters after a line for which the captures of match m are used
Counted(acc, m) ==
    LET ips == [acc.ips EXCEPT ![CapturedClass(m)] = @ + 1]
        key == normalize_match(m)
    IN  IF IsRaised(key) THEN [acc EXCEPT !.ips = ips, !.invalid_lines = @ + 1]
        ELSE [acc EXCEPT !.ips = ips, !.datetimes = DictAdd(@, key.v, 1)]

\* the patterns by their places in the list of analyze_log_content
CodeOrder == [i \in DOMAIN PATTERNS |-> i]

\* C14: for every sampled line the patterns are tried in priority order and
\* the first pattern that matches wins: no later pattern is tried after a
\* match, and the address and timestamp captures used for the line are those
\* of that first matching pattern.
C14_FirstMatchWins ==
    [][(NextLineSampled /\ ~MatchesNoPattern(file.lines[line_counter + 1]))
       => LET line == file.lines[line_counter + 1]
              first_match == re_match(FirstMatching(CodeOrder, line), line)
          IN  /\ match_patterns(line, 1, NoMatch, "unknown").match = first_match
              /\ counters' = Counted(counters, first_match)]_vars

\* the loop of analyze_log_content over the patterns, tried in a given order
RECURSIVE match_in_order(_, _, _, _, _)
match_in_order(order, line, i, match, ip_type) ==
    IF i > Len(order) THEN [match |-> match, ip_type |-> ip_type]
    ELSE LET m == re_match(order[i], line)
         IN  IF ~m.matched THEN match_in_order(order, line, i + 1, m, ip_type)
             ELSE IF CapturedClass(m) # "unknown"
                  THEN [match |-> m, ip_type |-> CapturedClass(m)]
             ELSE match_in_order(order, line, i + 1, m, "unknown")

\* the counters after a line for which the loop over the patterns ended with found
OutcomeOf(acc, found) ==
    LET ips == [acc.ips EXCEPT ![found.ip_type] = @ + 1]
        key == normalize_match(found.match)
    IN  IF ~found.match.matched \/ IsRaised(key)
        THEN [acc EXCEPT !.ips = ips, !.invalid_lines = @ + 1]
        ELSE [acc EXCEPT !.ips = ips, !.datetimes = DictAdd(@, key.v, 1)]

\* (1) domain and address list, (2) domain and single address, (3) address
\* list, (4) single address, (5) edge cache
ClaimedOrder ==
    LET place(name) == CHOOSE i \in DOMAIN PATTERNS : PATTERNS[i] = name
    IN  <<place("PATTERN_NCSA_EXTENDED_LOG_FORMAT_DOMAIN_WITH_IP_LIST"),
          place("PATTERN_NCSA_EXTENDED_LOG_FORMAT_DOMAIN"),
          place("PATTERN_NCSA_EXTENDED_LOG_FORMAT_WITH_IP_LIST"),
          place("PATTERN_NCSA_EXTENDED_LOG_FORMAT"),
          place("PATTERN_BUNNY")>>

\* C15: the fixed priority order in which the patterns are tried is (1)
\* extended format with leading domain and address list, (2) with leading
\* domain and single address, (3) with address list and no domain, (4) with
\* single address and no domain, (5) the edge-cache format: every sampled line
\* is counted as the loop over the patterns in that order counts it.
C15_PatternOrder ==
    [][NextLineSampled
       => counters' =
             OutcomeOf(counters,
                       match_in_order(ClaimedOrder, file.lines[line_counter + 1], 1,
                                      NoMatch, "unknown"))]_vars

\* C15 amended: the order is that of the list of analyze_log_content: (1)
\* single address and no domain, (2) leading domain and single address, (3)
\* address list and no domain, (4) leading domain and address list, (5) the
\* edge-cache format.
C15_CodeOrder ==
    [][NextLineSampled
       => counters' =
             OutcomeOf(counters,
                       match_in_order(CodeOrder, file.lines[line_counter + 1], 1,
                                      NoMatch, "unknown"))]_vars

\* a line with a domain and two addresses has been counted by its last
\* address, which the domain pattern captures
C15_Witness ==
    /\ pc = "analyze"
    /\ line_counter = 1
    /\ file.lines[1] = "proxied"
    /\ counters.ips = [local |-> 0, remote |-> 1, unknown |-> 0]

\* the number of sampled lines of the file that match a pattern
SampledMatched ==
    Cardinality({i \in DOMAIN file.lines :
                    i \in eval_lines /\ ~MatchesNoPattern(file.lines[i])})

\* C16: a sampled line that matches no pattern increments invalid_lines only
\* and adds nothing to any ips bucket (unknown included): after the pass,
\* ips.local + ips.remote + ips.unknown is the number of sampled lines that
\* matched a pattern.
C16_UnmatchedNotTallied ==
    /\ [][(NextLineSampled /\ MatchesNoPattern(file.lines[line_counter + 1]))
          => /\ counters'.invalid_lines = counters.invalid_lines + 1
             /\ counters'.ips = counters.ips]_vars
    /\ []((ContentResult /\ "ips" \in DOMAIN ret.v.content.summary)
          => LET ips == ret.v.content.summary.ips
             IN  ips.local + ips.remote + ips.unknown = SampledMatched)

\* the address tokens of the text of a line that carries several, in order
AddressTokens(line) ==
    CASE line = "forwarded"       -> <<"100.64.0.1", "200.1.2.3", "10.0.0.1">>
      [] line = "forwarded local" -> <<"100.64.0.1", "10.0.0.1", "100.64.0.1">>
      [] line = "proxied"         -> <<"10.0.0.1", "200.1.2.3">>

\* C17: for a matched line that carries several address tokens, the tokens are
\* classified in order and the line's address class is the first
\* classification that is not Unknown (Unknown if every token is); exactly one
\* ips bucket is incremented by one for the line.
C17_FirstKnownToken ==
    [][(/\ NextLineSampled
        /\ file.lines[line_counter + 1] \in {"forwarded", "forwarded local", "proxied"})
       => counters'.ips =
             [counters.ips EXCEPT
                 ![ip_list_type(AddressTokens(file.lines[line_counter + 1]))] = @ + 1]]_vars

\* validate_content has counted the lines of the file and computed a
\* sample_lines of 0
NoSampleLines ==
    /\ ContentEntered
    /\ ~IsRaised(get_total_lines(file))
    /\ sample_lines = 0

IpResults(remote, local, total) ==
    [content |-> [summary |-> [ips |-> [remote |-> remote, local |-> local],
                               total_lines |-> total]]]

InitIp ==
    /\ NoPipeline
    /\ \E remote \in 0..MaxCount, local \in 0..MaxCount, total \in 0..MaxTotal :
          call = [fn |-> "validate_ip_distribution",
                  results |-> IpResults(remote, local, total)]
    /\ ret = Pending

CallValidateIpDistribution ==
    /\ call.fn = "validate_ip_distribution"
    /\ ret = Pending
    /\ ret' = Returned(validate_ip_distribution(call.results))
    /\ UNCHANGED <<call, pipeline_vars>>

NextIp == CallValidateIpDistribution

SpecIp == InitIp /\ [][NextIp]_vars

\* C1: validate_ip_distribution returns false when the remote and local counts
\* are both zero or total_lines is zero; otherwise it returns true if and only
\* if remote/total*100 > local/total*100 or remote/total*100 > 10. The four
\* documented cases give true, false, false, true.
C1_IpDistribution ==
    /\ validate_ip_distribution(IpResults(5, 3, 10)) = TRUE
    /\ validate_ip_distribution(IpResults(0, 3, 8)) = FALSE
    /\ validate_ip_distribution(IpResults(9, 91, 100)) = FALSE
    /\ validate_ip_distribution(IpResults(11, 89, 100)) = TRUE
    /\ (call.fn = "validate_ip_distribution" /\ ret # Pending) =>
          LET ips == call.results.content.summary.ips
              total == call.results.content.summary.total_lines
          IN  IF (ips.remote = 0 /\ ips.local = 0) \/ total = 0
              THEN ret.v = FALSE
              ELSE ret.v = (\/ ips.remote * 100 * total > ips.local * 100 * total
                            \/ ips.remote * 100 > 10 * total)

\* a summary with no more remote than local addresses passes on the minimum
\* percentage alone
C1_Witness ==
    /\ call.fn = "validate_ip_distribution"
    /\ ret = Returned(TRUE)
    /\ call.results.content.summary.ips.remote < call.results.content.summary.ips.local

(***************************************************************************)
(* The sampler applied to every small (total_lines, sample_size,           *)
(* min_lines).                                                             *)
(***************************************************************************)
\* 0, 0.0005, 0.001, 0.002, 0.1, 0.25, 0.5, 0.7, 1.0, 100 and -0.1
SampleSizes == {0, 5, 10, 20, 1000, 2500, 5000, 7000, 10000, 1000000, -1000}
MinLinesValues == {0, 1, 5, 10, MIN_NUMBER_OF_SAMPLE_LINES}

InitSampler ==
    /\ NoPipeline
    /\ \E total \in 0..MaxTotal, size \in SampleSizes, min_lines \in MinLinesValues :
          call = [fn |-> "sampler", total_lines |-> total,
                  sample_size |-> size, min_lines |-> min_lines]
    /\ ret = Pending

\* validate_content up to the choice of eval_lines in analyze_log_content
CallSampler ==
    /\ call.fn = "sampler"
    /\ ret = Pending
    /\ LET size == effective_sample_size(call.sample_size, call.total_lines, call.min_lines)
           lines == sample_lines_of(call.total_lines, size)
       IN  ret' = Returned([sample_size |-> size, sample_lines |-> lines,
                            eval |-> eval_range(call.total_lines, lines)])
    /\ UNCHANGED <<call, pipeline_vars>>

NextSampler == CallSampler

SpecSampler == InitSampler /\ [][NextSampler]_vars

StrictlyIncreasing(s) == \A i \in DOMAIN s : i > 1 => s[i - 1] < s[i]

\* C8: for every total_lines > 0 and every requested fraction in (0, 1],
\* whatever the minimum-lines threshold, the sampler selects a non-empty,
\* strictly increasing sequence of line indices that are all <= total_lines.
C8_SamplerSelects ==
    (/\ call.fn = "sampler" /\ ret # Pending
     /\ call.total_lines > 0
     /\ call.sample_size > 0 /\ call.sample_size <= SAMPLE_SIZE_MAX) =>
        /\ ret.v.eval.t = "range"
        /\ Len(ret.v.eval.seq) > 0
        /\ StrictlyIncreasing(ret.v.eval.seq)
        /\ \A i \in DOMAIN ret.v.eval.seq : ret.v.eval.seq[i] <= call.total_lines

\* C9 as stated: the effective sample size is 1.0 when the requested one lies
\* outside (0.001, 1.0] or total_lines is below the threshold, and the
\* requested one otherwise.
C9_Original ==
    (call.fn = "sampler" /\ ret # Pending) =>
        ret.v.sample_size =
            IF \/ ~(call.sample_size > SAMPLE_SIZE_MIN /\ call.sample_size <= SAMPLE_SIZE_MAX)
               \/ call.total_lines < call.min_lines
            THEN SAMPLE_SIZE_MAX
            ELSE call.sample_size

\* C9 amended: the effective sample size is 1.0 when the requested one lies
\* outside [0.001, 1.0] or total_lines is at or below the threshold, and the
\* requested one otherwise.
C9_EffectiveSampleSize ==
    (call.fn = "sampler" /\ ret # Pending) =>
        ret.v.sample_size =
            IF \/ ~(call.sample_size >= SAMPLE_SIZE_MIN /\ call.sample_size <= SAMPLE_SIZE_MAX)
               \/ call.total_lines <= call.min_lines
            THEN SAMPLE_SIZE_MAX
            ELSE call.sample_size

\* a requested 0.001 on a file above the threshold is kept, and a file of
\* exactly min_lines lines is read in full
C9_Witness ==
    /\ call.fn = "sampler" /\ ret # Pending
    /\ \/ call.sample_size = SAMPLE_SIZE_MIN /\ call.total_lines > call.min_lines
          /\ ret.v.sample_size = SAMPLE_SIZE_MIN
       \/ call.sample_size = 5000 /\ call.total_lines = call.min_lines
          /\ call.total_lines > 0 /\ ret.v.sample_size = SAMPLE_SIZE_MAX

(***************************************************************************)
(* get_probably_date applied to every small datetimes mapping.             *)
(***************************************************************************)
ContentDays == {<<2022, 12, 27>>, <<2023, 1, 1>>, <<2023, 1, 6>>}
ContentHours == {0, 23}
DateTimeKeys == {<<d[1], d[2], d[3], h>> : d \in ContentDays, h \in ContentHours}

\* the mappings of at most n keys, in every insertion order
OrderedDicts(keys, n) ==
    UNION {{d \in [1..len -> [k : keys, v : 1..MaxFreq]] :
               \A i, j \in 1..len : i # j => d[i].k # d[j].k} : len \in 0..n}

DatetimesResults(datetimes) == [content |-> [summary |-> [datetimes |-> datetimes]]]

InitProbablyDate ==
    /\ NoPipeline
    /\ \E datetimes \in OrderedDicts(DateTimeKeys, MaxKeys) :
          call = [fn |-> "get_probably_date", results |-> DatetimesResults(datetimes)]
    /\ ret = Pending

CallGetProbablyDate ==
    /\ call.fn = "get_probably_date"
    /\ ret = Pending
    /\ ret' = Returned(get_probably_date(call.results))
    /\ UNCHANGED <<call, pipeline_vars>>

NextProbablyDate == CallGetProbablyDate

SpecProbablyDate == InitProbablyDate /\ [][NextProbablyDate]_vars

RECURSIVE SumValues(_)
SumValues(d) == IF d = <<>> THEN 0 ELSE Head(d).v + SumValues(Tail(d))

DayOf(key) == <<key[1], key[2], key[3]>>
\* the count of a calendar day, summed over the hour keys of that day
DayCount(datetimes, day) ==
    SumValues(SelectSeq(datetimes, LAMBDA e : DayOf(e.k) = day))

\* C3: for every non-empty datetimes mapping, get_probably_date returns a
\* calendar day whose count, summed over all hour keys of that day, is the
\* maximum over all days present; the per-day sums of get_date_frequencies add
\* up to the sum of all per-hour counts.
C3_ProbablyDateIsMax ==
    /\ get_probably_date(DatetimesResults(<<[k |-> <<2023, 1, 1, 0>>, v |-> 1],
                                            [k |-> <<2023, 1, 1, 1>>, v |-> 2]>>))
          = Date(<<2023, 1, 1>>)
    /\ get_date_frequencies(DatetimesResults(<<[k |-> <<2023, 1, 1, 0>>, v |-> 1],
                                               [k |-> <<2023, 1, 1, 1>>, v |-> 2]>>))
          = <<[k |-> <<2023, 1, 1>>, v |-> 3]>>
    /\ (call.fn = "get_probably_date" /\ ret # Pending) =>
          LET datetimes == call.results.content.summary.datetimes
              days == {DayOf(k) : k \in DictKeys(datetimes)}
          IN  /\ datetimes # <<>> =>
                    /\ ret.v.t = "datetime"
                    /\ ret.v.ymd \in days
                    /\ \A day \in days :
                          DayCount(datetimes, day) <= DayCount(datetimes, ret.v.ymd)
              /\ SumValues(get_date_frequencies(call.results)) = SumValues(datetimes)
              /\ \A day \in days :
                    \E i \in DOMAIN get_date_frequencies(call.results) :
                        get_date_frequencies(call.results)[i] =
                            [k |-> day, v |-> DayCount(datetimes, day)]

\* the probable day wins by aggregation over two hours, although another day
\* holds the largest single per-hour count
C3_Witness ==
    /\ call.fn = "get_probably_date" /\ ret # Pending
    /\ ret.v.t = "datetime"
    /\ LET datetimes == call.results.content.summary.datetimes
       IN  /\ \E i \in DOMAIN datetimes :
                 /\ DayOf(datetimes[i].k) # ret.v.ymd
                 /\ \A j \in DOMAIN datetimes :
                       DayOf(datetimes[j].k) = ret.v.ymd => datetimes[j].v < datetimes[i].v
           /\ \A i \in DOMAIN datetimes :
                 DayOf(datetimes[i].k) # ret.v.ymd =>
                     DayCount(datetimes, DayOf(datetimes[i].k)) < DayCount(datetimes, ret.v.ymd)

\* C18: when two or more calendar days share the maximum aggregated count,
\* get_probably_date returns the chronologically latest of those days,
\* whatever the order in which the days were first met in the mapping.
C18_LatestOfTies ==
    (call.fn = "get_probably_date" /\ ret # Pending
     /\ call.results.content.summary.datetimes # <<>>) =>
        LET datetimes == call.results.content.summary.datetimes
            days == {DayOf(k) : k \in DictKeys(datetimes)}
        IN  \A day \in days :
                DayCount(datetimes, day) = DayCount(datetimes, ret.v.ymd)
                    => ToOrdinal(day) <= ToOrdinal(ret.v.ymd)

(***************************************************************************)
(* validate_date_consistency applied to results as pipeline_validate       *)
(* builds them: a path date, a datetimes mapping and its probable date.    *)
(***************************************************************************)
Absent == [t |-> "absent"]
\* no 'path' key, None, '', 'YYYY-MM-DD' texts (valid or not), and a text
\* that is no date
PathDates ==
    {Absent, NoneV, Str(<<>>), Str(<<2023, 1, 1>>), Str(<<2024, 3, 1>>),
     Str(<<2023, 3, 1>>), Str(<<2023, 2, 30>>), Str(<<2023, 13, 1>>), Str(<<20230101>>)}
ProbableDays ==
    {<<2022, 12, 26>>, <<2022, 12, 27>>, <<2023, 1, 1>>, <<2023, 1, 6>>, <<2023, 1, 7>>,
     <<2023, 10, 30>>, <<2024, 2, 24>>, <<2024, 2, 25>>, <<2023, 2, 23>>, <<2023, 2, 24>>}
DaysDeltas == {-1, -7, 0, 1, DEFAULT_DAYS_DELTA, DEFAULT_DAYS_DELTA + 1}

DateResults(path_date, datetimes) ==
    LET content == [summary |-> [datetimes |-> datetimes]]
        probably_date == get_probably_date([content |-> content])
    IN  IF path_date = Absent
        THEN [content |-> content, probably_date |-> probably_date]
        ELSE [path |-> [date |-> path_date], content |-> content,
              probably_date |-> probably_date]

InitDateConsistency ==
    /\ NoPipeline
    /\ \E path_date \in PathDates, days_delta \in DaysDeltas,
          datetimes \in {<<>>} \cup
                        {<<[k |-> <<d[1], d[2], d[3], h>>, v |-> 1]>> :
                            d \in ProbableDays, h \in ContentHours} :
          call = [fn |-> "validate_date_consistency",
                  results |-> DateResults(path_date, datetimes),
                  days_delta |-> days_delta]
    /\ ret = Pending

CallValidateDateConsistency ==
    /\ call.fn = "validate_date_consistency"
    /\ ret = Pending
    /\ ret' = validate_date_consistency(call.results, call.days_delta)
    /\ UNCHANGED <<call, pipeline_vars>>

NextDateConsistency == CallValidateDateConsistency

SpecDateConsistency == InitDateConsistency /\ [][NextDateConsistency]_vars

\* the path date of the results is present and parses as YYYY-MM-DD
PathDateParses(res) ==
    /\ "path" \in DOMAIN res
    /\ res.path.date.t = "str"
    /\ IsValidDate(res.path.date.v)

\* the probable date is neither earlier than (path date - n days) nor later
\* than (path date + n days)
WithinDays(res, n) ==
    /\ ~(ToOrdinal(res.probably_date.ymd) < ToOrdinal(res.path.date.v) - n)
    /\ ~(ToOrdinal(res.probably_date.ymd) > ToOrdinal(res.path.date.v) + n)

UnusablePathDates ==
    {Absent, NoneV, Str(<<>>), Str(<<2023, 2, 30>>), Str(<<2023, 13, 1>>),
     Str(<<20230101>>), ErrV("date could not be extracted")}

InitUnusablePathDate ==
    /\ NoPipeline
    /\ \E path_date \in UnusablePathDates, days_delta \in DaysDeltas,
          datetimes \in {<<>>} \cup
                        {<<[k |-> <<d[1], d[2], d[3], h>>, v |-> 1]>> :
                            d \in ProbableDays, h \in ContentHours} :
          call = [fn |-> "validate_date_consistency",
                  results |-> DateResults(path_date, datetimes),
                  days_delta |-> days_delta]
    /\ ret = Pending

SpecUnusablePathDate == InitUnusablePathDate /\ [][NextDateConsistency]_vars

\* C20: validate_date_consistency returns false, and never raises, whenever
\* the path date is missing or unparseable - including when the 'date' path
\* attribute is absent (None) or holds the {'error': ...} marker that
\* validate_path_name records for a failed extraction.
C20_UnusablePathDate ==
    (call.fn = "validate_date_consistency" /\ ret # Pending) => ret = Returned(FALSE)

(***************************************************************************)
(* The counters of the pass of analyze_log_content.                        *)
(***************************************************************************)
\* the number of sampled lines among the lines read so far
SampledSeen == Cardinality({i \in 1..line_counter : i \in eval_lines})

\* the address tally, and the lines counted as dated or invalid
AddressTally(c) == c.ips.local + c.ips.remote + c.ips.unknown
DatedOrInvalid(c) == SumValues(c.datetimes) + c.invalid_lines

\* C21: after any prefix of the file has been processed, ips.local +
\* ips.remote + ips.unknown equals the number of sampled lines seen so far,
\* and so does (sum of all datetimes counts) + invalid_lines; every sampled
\* line adds exactly one to the address tally and exactly one to either
\* datetimes or invalid_lines, and unsampled lines change no counter.
C21_CountingInvariant ==
    /\ [](/\ AddressTally(counters) = SampledSeen
          /\ DatedOrInvalid(counters) = SampledSeen)
    /\ [][(pc = "analyze" /\ line_counter' = line_counter + 1)
          => IF line_counter' \in eval_lines
             THEN /\ AddressTally(counters') = AddressTally(counters) + 1
                  /\ \/ /\ SumValues(counters'.datetimes) = SumValues(counters.datetimes) + 1
                        /\ counters'.invalid_lines = counters.invalid_lines
                     \/ /\ counters'.datetimes = counters.datetimes
                        /\ counters'.invalid_lines = counters.invalid_lines + 1
             ELSE counters' = counters]_vars

\* two lines were passed over and the third, sampled and matching no
\* pattern, was counted once in the tally and once as invalid
C21_Witness ==
    /\ pc = "analyze"
    /\ line_counter = 3
    /\ eval_lines = {0, 3}
    /\ file.lines[3] = "garbage"
    /\ AddressTally(counters) = 1
    /\ counters.invalid_lines = 1

(***************************************************************************)
(* analyze_log_content called with a number of lines and a number of       *)
(* sample lines: the lines it evaluates.                                   *)
(***************************************************************************)
InitEvalLines ==
    /\ NoPipeline
    /\ \E total \in 1..MaxTotal :
          \E lines \in 0..total :
              call = [fn |-> "analyze_log_content", total_lines |-> total,
                      sample_lines |-> lines]
    /\ ret = Pending

\* eval_lines = set(range(...)); if line_counter in eval_lines, for the
\* line_counter of each of the total_lines lines
CallEvalLines ==
    /\ call.fn = "analyze_log_content"
    /\ ret = Pending
    /\ LET range == eval_range(call.total_lines, call.sample_lines)
       IN  ret' = IF range = Raised("ZeroDivisionError")
                  THEN Raised("LogFileIsEmptyError")
                  ELSE IF IsRaised(range) THEN range
                  ELSE Returned([stride |-> range.stride,
                                 evaluated |-> {i \in 1..call.total_lines :
                                                   i \in SeqToSet(range.seq)}])
    /\ UNCHANGED <<call, pipeline_vars>>

NextEvalLines == CallEvalLines

SpecEvalLines == InitEvalLines /\ [][NextEvalLines]_vars

\* the lines of 1..total whose position is a positive multiple of stride
MultiplesOf(stride, total) == {i \in 1..total : i % stride = 0}

\* C22: with total_lines = T > 0 and sample_lines = S in 1..T, the lines
\* evaluated are exactly those whose 1-based position is a positive multiple
\* of stride = floor(T/S) and is <= T (line 1 is evaluated only when stride =
\* 1); their number is floor(T/stride), which is always >= S and can exceed S
\* (T = 100, S = 60 evaluates all 100 lines).
C22_EvaluatedLines ==
    /\ LET range == eval_range(100, 60)
       IN  range.stride = 1 /\ SeqToSet(range.seq) \cap (1..100) = 1..100
    /\ (/\ call.fn = "analyze_log_content" /\ ret # Pending
        /\ call.sample_lines \in 1..call.total_lines) =>
          /\ ret.t = "returned"
          /\ ret.v.stride = call.total_lines \div call.sample_lines
          /\ ret.v.evaluated = MultiplesOf(ret.v.stride, call.total_lines)
          /\ Cardinality(ret.v.evaluated) = call.total_lines \div ret.v.stride
          /\ Cardinality(ret.v.evaluated) >= call.sample_lines
          /\ (1 \in ret.v.evaluated) <=> (ret.v.stride = 1)

\* of 5 lines with 3 sample lines all 5 are evaluated, and of 7 lines with 3
\* sample lines the lines 2, 4 and 6
C22_Witness ==
    /\ call.fn = "analyze_log_content" /\ ret.t = "returned"
    /\ \/ /\ call.total_lines = 5 /\ call.sample_lines = 3
          /\ ret.v.evaluated = 1..5
       \/ /\ call.total_lines = 7 /\ call.sample_lines = 3
          /\ ret.v.evaluated = {2, 4, 6}

(***************************************************************************)
(* pipeline_validate on a file whose content cannot be used.               *)
(***************************************************************************)
\* pipeline_validate with content validation has ended on an unusable file
UnusableContentDone ==
    UnusableContent /\ call.apply_content_validation /\ pc = "done"

\* C23: for a file that is empty, truncated or of an unsupported type,
\* pipeline_validate with content validation enabled returns normally:
\* probably_date is an error marker because the datetimes mapping is empty,
\* and is_valid is {ips: false, dates: false, all: false}.
C23_UnusableContentVerdicts ==
    UnusableContentDone =>
        /\ ret.t = "returned"
        /\ ret.v = results
        /\ get_date_frequencies(ret.v) = <<>>
        /\ ret.v.probably_date = ErrV("Date dictionary is empty")
        /\ ret.v.is_valid = [ips |-> FALSE, dates |-> FALSE, all |-> FALSE]

\* an empty file with a dated name and a file of an unsupported type have
\* been given their verdicts
C23_Witness ==
    /\ UnusableContentDone
    /\ ret.t = "returned"
    /\ \/ /\ FileIsEmpty /\ call.apply_path_validation
          /\ ret.v.content = ErrorSummary("File is empty")
          /\ ret.v.probably_date = ErrV("Date dictionary is empty")
       \/ /\ FileIsUnsupported
          /\ ret.v.content = ErrorSummary("File is invalid")
          /\ ret.v.is_valid.all = FALSE

(***************************************************************************)
(* pipeline_validate on gzip files of up to MaxTotal lines, each made of a *)
(* run of lines of one kind followed by a run of lines of another kind,    *)
(* with the default fraction 0.1 and the fraction 0.5 above a threshold of *)
(* one line, and with the default threshold (every line evaluated).        *)
(***************************************************************************)
LongLineKinds == {"remote", "local", "garbage"}

TwoRuns(n, k, a, b) == [i \in 1..n |-> IF i <= k THEN a ELSE b]

LongContents ==
    {TwoRuns(n, k, a, b) : n \in 0..MaxTotal, k \in 0..MaxTotal,
                           a \in LongLineKinds, b \in LongLineKinds}

LongSamplings == {<<1000, 1>>, <<5000, 1>>, <<1000, MIN_NUMBER_OF_SAMPLE_LINES>>}

InitLongFiles ==
    /\ file \in {ReadableFile("application/gzip", FALSE, lines) : lines \in LongContents}
    /\ \E sampling \in LongSamplings :
          call = [fn |-> "pipeline_validate", name |-> DatedName,
                  sample_size |-> sampling[1], min_lines |-> sampling[2],
                  days_delta |-> DEFAULT_DAYS_DELTA,
                  apply_path_validation |-> TRUE,
                  apply_content_validation |-> TRUE]
    /\ ret = Pending
    /\ pc = "start"
    /\ run = 1
    /\ first = Pending
    /\ FreshLocals

SpecLongFiles == InitLongFiles /\ [][Next]_vars

\* the pass of analyze_log_content has returned its summary, made with a
\* stride of at least 10 lines
SummaryOfStride10 ==
    /\ pc \in {"evaluate", "done"}
    /\ "content" \in DOMAIN results
    /\ "ips" \in DOMAIN results.content.summary
    /\ sample_lines > 0
    /\ total_lines \div sample_lines >= 10

\* C24: the address percentages are taken over total_lines, so whenever the
\* sampling stride is >= 10 the remote count is at most total_lines/10, the
\* remote percentage is never above the minimum of 10, and the address
\* verdict is true if and only if remote > local.
C24_StrideTenVerdict ==
    SummaryOfStride10 =>
        LET summary == results.content.summary
        IN  /\ summary.total_lines = total_lines
            /\ summary.ips.remote * 10 <= total_lines
            /\ ~RatGT(Percent(summary.ips.remote, total_lines),
                      <<MIN_ACCEPTABLE_PERCENT_OF_REMOTE_IPS, 1>>)
            /\ validate_ip_distribution(results) =
                  (summary.ips.remote > summary.ips.local)
            /\ pc = "done" =>
                  results.is_valid.ips = (summary.ips.remote > summary.ips.local)

\* of 20 lines at the fraction 0.1 the 10th and the 20th are evaluated, one
\* remote and one local: half of the sampled lines are remote, 5% of the
\* total, and the address verdict is false
C24_Witness ==
    /\ SummaryOfStride10
    /\ pc = "done"
    /\ total_lines = 20 /\ eval_lines = {0, 10, 20}
    /\ results.content.summary.ips = [local |-> 1, remote |-> 1, unknown |-> 0]
    /\ results.is_valid.ips = FALSE

====
